---- MODULE Spec2Model ----
(***************************************************************************)
(* A model of the bidirectional path tracer of src/integrators/bdpt.cpp:   *)
(* RandomWalk, GenerateCameraSubpath, GenerateLightSubpath, MISWeight,     *)
(* ConnectBDPT and the two-pass driver BDPTIntegrator::Render.             *)
(*                                                                         *)
(* Float values are modelled exactly: a density is a natural number and a  *)
(* weight or a radiance is a fraction <<n, d>> with d > 0.  Everything the *)
(* scene, the camera, the lights, the sampler and the BSDFs return is an   *)
(* input chosen from a small set.                                          *)
(***************************************************************************)
EXTENDS Integers, Sequences, FiniteSets, TLC

----------------------------------------------------------------------------
(* Bounds of the model *)

\* maxdepth ranges over 0..MaxDepthBound
MaxDepthBound == 1
\* samplesPerPixel ranges over 1..MaxSamplesPerPixel
MaxSamplesPerPixel == 2
\* densities that Render's collaborators return range over 0..RenderMaxPdf
RenderMaxPdf == 1
\* densities of the MISWeight inputs range over 0..MISMaxPdf
MISMaxPdf == 2
\* the largest density MISWeight is given where the heuristics are compared
HeuristicMaxPdf == 2
\* rectifier factors range over 1..RenderMaxFactor in Render
RenderMaxFactor == 1
\* rectifier factors of the MISWeight inputs range over 1..MISMaxFactor
MISMaxFactor == 2
\* the longest subpath given to MISWeight on its own
MISMaxLen == 2
\* a complete path has 2..MaxPathLen vertices
MaxPathLen == 4
\* the largest density along such a path
PathMaxPdf == 2
\* where the merge is taken alone, samplesPerPixel ranges over
\* 1..MergeMaxSamples and a pixel of a buffer over 0..MergeMaxValue
MergeMaxSamples == 3
MergeMaxValue == 2

----------------------------------------------------------------------------
(* Float arithmetic, exact: <<n, d>> stands for n / d *)

RECURSIVE Gcd(_, _)
Gcd(a, b) == IF b = 0 THEN a ELSE Gcd(b, a % b)

Abs(x) == IF x < 0 THEN -x ELSE x

Frac(n, d) ==
    LET g == Gcd(Abs(n), Abs(d))
        sgn == IF d < 0 THEN -1 ELSE 1
    IN  IF g = 0 THEN <<n, d>> ELSE <<sgn * (n \div g), sgn * (d \div g)>>

FZero == <<0, 1>>
FOne == <<1, 1>>
FInt(n) == <<n, 1>>
FAdd(a, b) == Frac(a[1] * b[2] + b[1] * a[2], a[2] * b[2])
FMul(a, b) == Frac(a[1] * b[1], a[2] * b[2])
FDiv(a, b) == Frac(a[1] * b[2], a[2] * b[1])
FLeq(a, b) == a[1] * b[2] <= b[1] * a[2]
FIsZero(a) == a[1] = 0

\* the element of a set of one element; {e(x) : x \in {v}} has v computed
\* once, however often e uses it
Only(S) == CHOOSE x \in S : TRUE

----------------------------------------------------------------------------
(* Vertices *)

\* the type of a vertex is "Camera", "Light", "Surface" or "Medium"; the light
\* an endpoint vertex refers to is of one of these kinds, "none" being a
\* null light pointer
LightKinds == {"area", "deltaPosition", "deltaDirection", "infinite"}

\* Vertex(): pdfFwd = 0, pdfRev = 0, delta = false; revSet records that
\* RandomWalk has assigned pdfRev since the vertex was constructed
DefaultVertex ==
    [type |-> "Camera", delta |-> FALSE, pdfFwd |-> 0, pdfRev |-> 0,
     light |-> "none", revSet |-> FALSE]

\* CreateCamera, CreateLight, CreateSurface, CreateMedium: a vertex of the
\* given type with its forward density; pdfRev and delta keep their defaults
MkVertex(type, pdfFwd, light) ==
    [type |-> type, delta |-> FALSE, pdfFwd |-> pdfFwd, pdfRev |-> 0,
     light |-> light, revSet |-> FALSE]

IsDeltaLight(v) ==
    v.type = "Light" /\ v.light \in {"deltaPosition", "deltaDirection"}

IsInfiniteLight(v) ==
    v.type = "Light" /\ v.light \in {"none", "infinite", "deltaDirection"}

\* nonSpecular: the BSDF of a surface vertex has a non-specular component
IsConnectible(v, nonSpecular) ==
    CASE v.type = "Medium" -> TRUE
      [] v.type = "Light" -> v.light # "deltaDirection"
      [] v.type = "Camera" -> TRUE
      [] v.type = "Surface" -> nonSpecular

\* areaLight: the primitive of a surface vertex is an area light
IsLight(v, areaLight) ==
    v.type = "Light" \/ (v.type = "Surface" /\ areaLight)

----------------------------------------------------------------------------
(* ScopedAssignment<T>: the two subpaths are the memory it writes to *)

ReadTarget(mem, tgt) ==
    IF tgt.field = "vertex" THEN mem[tgt.arr][tgt.idx]
    ELSE mem[tgt.arr][tgt.idx][tgt.field]

WriteTarget(mem, tgt, val) ==
    IF tgt.field = "vertex"
    THEN [mem EXCEPT ![tgt.arr][tgt.idx] = val]
    ELSE [mem EXCEPT ![tgt.arr][tgt.idx][tgt.field] = val]

\* the memory once the first k assignments of `as` are made, in the order of
\* their declarations
RECURSIVE AssignAll(_, _, _)
AssignAll(mem, as, k) ==
    IF k = 0 THEN mem
    ELSE WriteTarget(AssignAll(mem, as, k - 1), as[k].target, as[k].value)

\* a = {target, value}: a scoped assignment keeps *target as its backup, then
\* assigns; an assignment that is not scoped keeps nothing
ScopedBackups(mem, as) ==
    [k \in 1..Len(as) |->
        [target |-> as[k].target,
         restore |-> as[k].scoped,
         backup |-> ReadTarget(AssignAll(mem, as, k - 1), as[k].target)]]

\* the destructors run in the reverse order of the declarations: the first k
\* backups are still to be restored
RECURSIVE ScopeExit(_, _, _)
ScopeExit(mem, scopes, k) ==
    IF k = 0 THEN mem
    ELSE ScopeExit(IF scopes[k].restore
                   THEN WriteTarget(mem, scopes[k].target, scopes[k].backup)
                   ELSE mem,
                   scopes, k - 1)

----------------------------------------------------------------------------
(* MISWeight *)

MisStrategies == {"balance", "power", "uniform"}

remap0(f) == IF f # 0 THEN f ELSE 1

Target(arr, idx, field) == [arr |-> arr, idx |-> idx, field |-> field]

Assignment(tgt, val, scoped) ==
    [target |-> tgt, value |-> val, scoped |-> scoped]

\* a1 .. a7 without a5, the reverse density of ptMinus
MISTemporariesWithoutPtMinus(sampled, s, t, pdfs) ==
    (IF s = 1
     THEN <<Assignment(Target("light", s - 1, "vertex"), sampled, TRUE)>>
     ELSE IF t = 1
     THEN <<Assignment(Target("camera", t - 1, "vertex"), sampled, TRUE)>>
     ELSE <<>>)
    \o (IF t > 0
        THEN <<Assignment(Target("camera", t - 1, "delta"), FALSE, TRUE)>>
        ELSE <<>>)
    \o (IF s > 0
        THEN <<Assignment(Target("light", s - 1, "delta"), FALSE, TRUE)>>
        ELSE <<>>)
    \o (IF t > 0
        THEN <<Assignment(Target("camera", t - 1, "pdfRev"), pdfs.pt, TRUE)>>
        ELSE <<>>)
    \o (IF s > 0
        THEN <<Assignment(Target("light", s - 1, "pdfRev"), pdfs.qs, TRUE)>>
        ELSE <<>>)
    \o (IF s > 1
        THEN <<Assignment(Target("light", s - 2, "pdfRev"), pdfs.qsMinus, TRUE)>>
        ELSE <<>>)

\* a1 .. a7 with a1 a plain assignment
MISTemporariesLeaky(sampled, s, t, pdfs) ==
    (IF s = 1
     THEN <<Assignment(Target("light", s - 1, "vertex"), sampled, FALSE)>>
     ELSE IF t = 1
     THEN <<Assignment(Target("camera", t - 1, "vertex"), sampled, FALSE)>>
     ELSE <<>>)
    \o (IF t > 0
        THEN <<Assignment(Target("camera", t - 1, "delta"), FALSE, TRUE)>>
        ELSE <<>>)
    \o (IF s > 0
        THEN <<Assignment(Target("light", s - 1, "delta"), FALSE, TRUE)>>
        ELSE <<>>)
    \o (IF t > 0
        THEN <<Assignment(Target("camera", t - 1, "pdfRev"), pdfs.pt, TRUE)>>
        ELSE <<>>)
    \o (IF t > 1
        THEN <<Assignment(Target("camera", t - 2, "pdfRev"), pdfs.ptMinus, TRUE)>>
        ELSE <<>>)
    \o (IF s > 0
        THEN <<Assignment(Target("light", s - 1, "pdfRev"), pdfs.qs, TRUE)>>
        ELSE <<>>)
    \o (IF s > 1
        THEN <<Assignment(Target("light", s - 2, "pdfRev"), pdfs.qsMinus, TRUE)>>
        ELSE <<>>)

\* the temporary updates of the vertices for the strategy (s, t), in the
\* order of their declarations; pdfs holds what the calls of Vertex::Pdf,
\* PdfLight and PdfLightOrigin return
MISTemporaries(sampled, s, t, pdfs) ==
    \* a1: the sampled vertex for s = 1 or t = 1
    (IF s = 1
     THEN <<Assignment(Target("light", s - 1, "vertex"), sampled, TRUE)>>
     ELSE IF t = 1
     THEN <<Assignment(Target("camera", t - 1, "vertex"), sampled, TRUE)>>
     ELSE <<>>)
    \* a2, a3: the connection vertices are non-degenerate
    \o (IF t > 0
        THEN <<Assignment(Target("camera", t - 1, "delta"), FALSE, TRUE)>>
        ELSE <<>>)
    \o (IF s > 0
        THEN <<Assignment(Target("light", s - 1, "delta"), FALSE, TRUE)>>
        ELSE <<>>)
    \* a4: reverse density of pt
    \o (IF t > 0
        THEN <<Assignment(Target("camera", t - 1, "pdfRev"), pdfs.pt, TRUE)>>
        ELSE <<>>)
    \* a5: reverse density of ptMinus
    \o (IF t > 1
        THEN <<Assignment(Target("camera", t - 2, "pdfRev"), pdfs.ptMinus, TRUE)>>
        ELSE <<>>)
    \* a6, a7: reverse densities of qs and qsMinus
    \o (IF s > 0
        THEN <<Assignment(Target("light", s - 1, "pdfRev"), pdfs.qs, TRUE)>>
        ELSE <<>>)
    \o (IF s > 1
        THEN <<Assignment(Target("light", s - 2, "pdfRev"), pdfs.qsMinus, TRUE)>>
        ELSE <<>>)

\* ri *= remap0(pdfRev) / remap0(pdfFwd)
DensityRatio(v) == Frac(remap0(v.pdfRev), remap0(v.pdfFwd))

\* effDensRatio = ri, squared for the power heuristic, 1 for the uniform one
EffDensRatio(ri, mode) ==
    IF mode = "power" THEN FMul(ri, ri)
    ELSE IF mode = "uniform" THEN FOne
    ELSE ri

\* rectifier ? rectifier->Get(pxCoords, s+t, i) : 1.0f; fac[i] is the factor
\* the rectifier holds for this pixel, this path length and technique i
StratFactor(rect, fac, i) == IF rect THEN fac[i] ELSE 1

\* 1 + sumRi / stratFactorCurTech, without the reciprocal
MISWeightValueNoReciprocal(sumRi, stratFactorCurTech) ==
    FAdd(FOne, FDiv(sumRi, FInt(stratFactorCurTech)))

\* 1 / (1 + sumRi / stratFactorCurTech)
MISWeightValue(sumRi, stratFactorCurTech) ==
    FDiv(FOne, FAdd(FOne, FDiv(sumRi, FInt(stratFactorCurTech))))

\* the loop along the camera subpath ending with i > 1: the strategy that
\* connects to the camera is left out
CameraSumRiWithoutFirst(cv, s, t, rect, fac, mode) ==
    LET ri[i \in 1..t] ==
            IF i >= t THEN FOne ELSE FMul(ri[i + 1], DensityRatio(cv[i]))
        sum[i \in 1..t] ==
            IF i >= t THEN FZero
            ELSE IF ~cv[i].delta /\ ~cv[i - 1].delta
                 THEN FAdd(sum[i + 1],
                           FMul(EffDensRatio(ri[i], mode),
                                FInt(StratFactor(rect, fac, i))))
                 ELSE sum[i + 1]
    IN  IF t >= 2 THEN sum[2] ELSE FZero

\* the sum over the hypothetical strategies along the camera subpath
CameraSumRi(cv, s, t, rect, fac, mode) ==
    LET ri[i \in 1..t] ==
            IF i >= t THEN FOne ELSE FMul(ri[i + 1], DensityRatio(cv[i]))
        sum[i \in 1..t] ==
            IF i >= t THEN FZero
            ELSE IF ~cv[i].delta /\ ~cv[i - 1].delta
                 THEN FAdd(sum[i + 1],
                           FMul(EffDensRatio(ri[i], mode),
                                FInt(StratFactor(rect, fac, i))))
                 ELSE sum[i + 1]
    IN  IF t >= 1 THEN sum[1] ELSE FZero

\* the sum over the hypothetical strategies along the light subpath
LightSumRi(lv, s, t, rect, fac, mode) ==
    LET ri[i \in 0..s] ==
            IF i >= s THEN FOne ELSE FMul(ri[i + 1], DensityRatio(lv[i]))
        deltaLightvertex(i) ==
            IF i > 0 THEN lv[i - 1].delta ELSE IsDeltaLight(lv[0])
        sum[i \in 0..s] ==
            IF i >= s THEN FZero
            ELSE IF ~lv[i].delta /\ ~deltaLightvertex(i)
                 THEN FAdd(sum[i + 1],
                           FMul(EffDensRatio(ri[i], mode),
                                FInt(StratFactor(rect, fac, s + t - i))))
                 ELSE sum[i + 1]
    IN  sum[0]

\* a pointer into one of the two subpaths, or nullptr
Ptr(arr, idx, nonNull) ==
    IF nonNull THEN [arr |-> arr, idx |-> idx] ELSE [arr |-> "nullptr", idx |-> 0]

IsNull(p) == p.arr = "nullptr"

\* the pointers that MISWeight(s, t) dereferences after its first line and
\* the elements of the two arrays that its loops read
MISWeightDerefs(sv, tv) ==
    LET qs == Ptr("light", sv - 1, sv > 0)
        pt == Ptr("camera", tv - 1, tv > 0)
        qsMinus == Ptr("light", sv - 2, sv > 1)
        ptMinus == Ptr("camera", tv - 2, tv > 1)
    IN  \* a1 = {qs, sampled} or {pt, sampled}
        (IF sv = 1 THEN {qs} ELSE IF tv = 1 THEN {pt} ELSE {})
        \* if (pt) a2 = {&pt->delta, false}; if (qs) a3 = {&qs->delta, false}
        \cup (IF ~IsNull(pt) THEN {pt} ELSE {})
        \cup (IF ~IsNull(qs) THEN {qs} ELSE {})
        \* if (pt) a4 = {&pt->pdfRev, s > 0 ? qs->Pdf(scene, qsMinus, *pt)
        \*                                  : pt->PdfLightOrigin(scene, *ptMinus, ...)}
        \cup (IF ~IsNull(pt)
              THEN IF sv > 0 THEN {pt, qs} ELSE {pt, ptMinus}
              ELSE {})
        \* if (ptMinus) a5 = {&ptMinus->pdfRev, pt->Pdf or pt->PdfLight(.., *ptMinus)}
        \cup (IF ~IsNull(ptMinus) THEN {ptMinus, pt} ELSE {})
        \* if (qs) a6 = {&qs->pdfRev, pt->Pdf(scene, ptMinus, *qs)}
        \cup (IF ~IsNull(qs) THEN {qs, pt} ELSE {})
        \* if (qsMinus) a7 = {&qsMinus->pdfRev, qs->Pdf(scene, pt, *qsMinus)}
        \cup (IF ~IsNull(qsMinus) THEN {qsMinus, qs} ELSE {})
        \* for (i = t - 1; i > 0; --i): cameraVertices[i], cameraVertices[i - 1]
        \cup {Ptr("camera", i, TRUE) : i \in 1..(tv - 1)}
        \cup {Ptr("camera", i - 1, TRUE) : i \in 1..(tv - 1)}
        \* for (i = s - 1; i >= 0; --i): lightVertices[i], and
        \* lightVertices[i - 1] for i > 0, lightVertices[0] for i = 0
        \cup {Ptr("light", i, TRUE) : i \in 0..(sv - 1)}
        \cup {Ptr("light", i - 1, TRUE) : i \in 1..(sv - 1)}

\* the elements of the two arrays that ConnectBDPT(s, t) reads before it
\* computes the weight; ptIsLight is pt.IsLight()
ConnectBDPTDerefs(sv, tv, ptIsLight) ==
    \* t > 1 && s != 0 && cameraVertices[t - 1].type == VertexType::Light
    (IF tv > 1 /\ sv # 0 THEN {Ptr("camera", tv - 1, TRUE)} ELSE {})
    \cup (IF sv = 0
          THEN {Ptr("camera", tv - 1, TRUE)}
               \cup (IF ptIsLight THEN {Ptr("camera", tv - 2, TRUE)} ELSE {})
          ELSE IF tv = 1 THEN {Ptr("light", sv - 1, TRUE)}
          ELSE IF sv = 1 THEN {Ptr("camera", tv - 1, TRUE)}
          ELSE {Ptr("light", sv - 1, TRUE), Ptr("camera", tv - 1, TRUE)})

\* the weight of MISWeight once the vertices tmp hold the temporary updates
MISWeightSum(tmp, s, t, rect, fac, mode) ==
    MISWeightValue(FAdd(CameraSumRi(tmp.camera, s, t, rect, fac, mode),
                        LightSumRi(tmp.light, s, t, rect, fac, mode)),
                   StratFactor(rect, fac, t))

\* the vertices whose pdfRev the two loops of MISWeight(s, t) read: the
\* camera loop runs i = t - 1 .. 1, the light loop i = s - 1 .. 0
LoopReads(s, t) ==
    {Ptr("camera", i, TRUE) : i \in 1..(t - 1)}
    \cup {Ptr("light", i, TRUE) : i \in 0..(s - 1)}

\* the vertices whose pdfRev one of the assignments `as` writes
PdfRevAssigned(as) ==
    {Ptr(as[k].target.arr, as[k].target.idx, TRUE) :
        k \in {j \in 1..Len(as) : as[j].target.field = "pdfRev"}}

\* the vertices of tmp, the subpaths with the temporary updates, whose pdfRev
\* the loops read although neither RandomWalk nor MISWeight has assigned it
UnsetReads(tmp, as, s, t) ==
    {p \in LoopReads(s, t) :
        ~tmp[p.arr][p.idx].revSet /\ p \notin PdfRevAssigned(as)}

\* mem: the two subpaths; the result holds the weight and the subpaths as
\* they are once the scoped assignments have been undone
MISWeight(mem, sampled, s, t, pdfs, rect, fac, mode) ==
    IF s + t = 2
    THEN [weight |-> FOne, mem |-> mem, gets |-> FALSE, unsetReads |-> {}]
    ELSE Only({Only({[weight |-> MISWeightSum(st[1], s, t, rect, fac, mode),
                      mem |-> ScopeExit(st[1], st[2], Len(st[2])),
                      gets |-> rect,
                      unsetReads |-> UnsetReads(st[1], as, s, t)] :
                     st \in {<<AssignAll(mem, as, Len(as)),
                               ScopedBackups(mem, as)>>}}) :
               as \in {MISTemporaries(sampled, s, t, pdfs)}})

----------------------------------------------------------------------------
(* ConnectBDPT *)

\* o holds what the scene returns during the call:
\*   qsConn, ptConn   the BSDF at qs, pt has a non-specular component
\*   ptAreaLight      the primitive at pt is an area light
\*   sampleOk         Sample_Wi / Sample_Li returns pdf > 0 and a non-black value
\*   Lval             the contribution when the connection is made
\*   pRaster          the raster position Sample_Wi writes
\*   sampledPdf, sampledLight   PdfLightOrigin and the light of the sampled vertex
\*   pdfs, fac        the densities and the rectifier factors MISWeight reads
\* pRaster0 and misWeight0 are *pRaster and *misWeightPtr at the call
ConnectBDPT(mem, s, t, pRaster0, misWeight0, rect, mode, o) ==
    LET cv == mem.camera
        lv == mem.light
    IN  IF t > 1 /\ s # 0 /\ cv[t - 1].type = "Light"
        THEN [L |-> FZero, unweighted |-> 0, misWeight |-> misWeight0,
              pRaster |-> pRaster0, sampledWi |-> FALSE, mem |-> mem,
              misCalled |-> FALSE, gets |-> FALSE, invalid |-> TRUE,
              derefs |-> {Ptr("camera", t - 1, TRUE)}, unsetReads |-> {}]
        ELSE
        LET sampleWi == s # 0 /\ t = 1 /\ IsConnectible(lv[s - 1], o.qsConn)
            sampleLi == s = 1 /\ t # 1 /\ IsConnectible(cv[t - 1], o.ptConn)
            L == IF s = 0
                 THEN IF IsLight(cv[t - 1], o.ptAreaLight) THEN o.Lval ELSE 0
                 ELSE IF t = 1
                 THEN IF sampleWi /\ o.sampleOk THEN o.Lval ELSE 0
                 ELSE IF s = 1
                 THEN IF sampleLi /\ o.sampleOk THEN o.Lval ELSE 0
                 ELSE IF IsConnectible(lv[s - 1], o.qsConn)
                         /\ IsConnectible(cv[t - 1], o.ptConn)
                      THEN o.Lval ELSE 0
            sampled == IF sampleWi /\ o.sampleOk
                       THEN MkVertex("Camera", 0, "none")
                       ELSE IF sampleLi /\ o.sampleOk
                       THEN MkVertex("Light", o.sampledPdf, o.sampledLight)
                       ELSE DefaultVertex
            pRaster == IF sampleWi THEN o.pRaster ELSE pRaster0
            derefs == ConnectBDPTDerefs(s, t,
                          s = 0 /\ IsLight(cv[t - 1], o.ptAreaLight))
        IN  \* misWeight = L.IsBlack() ? 0.f : MISWeight(...); L *= misWeight
            IF L = 0
            THEN [L |-> FZero, unweighted |-> L, misWeight |-> FZero,
                  pRaster |-> pRaster, sampledWi |-> sampleWi, mem |-> mem,
                  misCalled |-> FALSE, gets |-> FALSE, invalid |-> FALSE,
                  derefs |-> derefs, unsetReads |-> {}]
            ELSE Only({[L |-> FMul(FInt(L), mis.weight), unweighted |-> L,
                        misWeight |-> mis.weight,
                        pRaster |-> pRaster, sampledWi |-> sampleWi,
                        mem |-> mis.mem, misCalled |-> TRUE,
                        gets |-> mis.gets, invalid |-> FALSE,
                        derefs |-> derefs \cup
                            (IF s + t = 2 THEN {}
                             ELSE MISWeightDerefs(s, t)),
                        unsetReads |-> mis.unsetReads] :
                       mis \in {MISWeight(mem, sampled, s, t, o.pdfs, rect,
                                          o.fac, mode)}})

----------------------------------------------------------------------------
(* The state of BDPTIntegrator::Render *)

VARIABLES
    \* the integrator's parameters
    maxDepth, misStrategy, misMod, useReferenceVariances, prepassSamples,
    samplesPerPixel, pixelBounds, estimateVariances,
    \* scene.lights.size() > 0
    hasLights,
    \* where Render is, and which call of renderIterFn runs (0: the prepass)
    pc, iter,
    \* the pixel loop, the sample loop and the sampler's sample index
    pPixel, curSample, sampleIndex,
    \* the two subpaths of the current sample, and the random walk filling one
    cameraVertices, lightVertices, nCamera, nLight, walk,
    \* the strategy loop, the radiance L of the sample, the last connection
    t, s, L, conn,
    \* the calls of ConnectBDPT and of AddSplat made for the current sample
    calls, splatLog,
    \* the tile, the film, the captured buffers and the rectifier
    filmTile, film, frameBuffers, rectifier,
    \* the image that is written once the buffers are merged
    out,
    \* the workers of ParallelFor2D, one for each tile
    workers,
    \* for each variance estimator, the strategies that added an estimate
    varianceEstimators

cfgVars == <<maxDepth, misStrategy, misMod, useReferenceVariances,
             prepassSamples, samplesPerPixel, pixelBounds, estimateVariances,
             hasLights>>
loopVars == <<pPixel, curSample, sampleIndex>>
pathVars == <<cameraVertices, lightVertices, nCamera, nLight, walk>>
connVars == <<t, s, L, conn, calls, splatLog>>
filmVars == <<filmTile, film, frameBuffers, out>>
vars == <<cfgVars, pc, iter, loopVars, pathVars, connVars, filmVars, rectifier,
          workers, varianceEstimators>>

MisMods == {"none", "reciprocal", "moment"}

\* the pixels of the one tile the model renders
NumPixels == 2
\* where the tiles run concurrently, a tile has TileSize pixels
TileSize == 1
Pixels == 0..(NumPixels - 1)

\* arena.Alloc<Vertex>(n)
AllocVertices(n) == [i \in 0..(n - 1) |-> DefaultVertex]

NoWalk == [which |-> "none", mode |-> "none", maxDepth |-> 0, bounces |-> 0,
           pdfFwd |-> 0, pdfRev |-> 0]

NoConn == [s |-> 0, t |-> 0, executed |-> FALSE, Lpath |-> FZero,
           unweighted |-> 0, misWeight |-> FZero, balanceWeight |-> FZero,
           pFilmNew |-> 0, sampledWi |-> FALSE,
           misCalled |-> FALSE, gets |-> FALSE, invalid |-> FALSE,
           mode |-> "none", estimated |-> FALSE, estimate |-> FZero,
           bufferIndex |-> -1, derefs |-> {}, unsetReads |-> {}]

\* the film holds, for each pixel, the number of samples that the merged
\* tiles added and the number of splats
EmptyFilm == [n |-> [p \in Pixels |-> 0], splat |-> [p \in Pixels |-> 0]]

\* nothing is merged yet
NoImage == [merged |-> FALSE]

\* the image is one row of pixels, cut into tiles of TileSize pixels:
\* nXTiles = (sampleExtent.x + tileSize - 1) / tileSize
nXTiles == (NumPixels + TileSize - 1) \div TileSize
Tiles == 0..(nXTiles - 1)

\* tileBounds: x0 = tile.x * tileSize, x1 = min(x0 + tileSize, pMax.x)
TileBounds(tile) ==
    LET x0 == tile * TileSize
        x1 == IF x0 + TileSize < NumPixels THEN x0 + TileSize ELSE NumPixels
    IN  x0..(x1 - 1)

\* a worker before ParallelFor2D has given it its tile: pass is the call of
\* renderIterFn it last ran in, merges counts its calls of MergeFilmTile
IdleWorker ==
    [pc |-> "idle", pass |-> -1, pPixel |-> 0, curSample |-> 0,
     sampleIndex |-> 0, filmTile |-> EmptyFilm.n, merges |-> 0]
NoWorkers == [tile \in Tiles |-> IdleWorker]

enableRectification == misMod # "none"

\* the index with one estimator for each depth d and each t in 1..d+2:
\* d rows of 2, 3, ... estimators come before those of depth d
BufferIndexByDepth(sv, tv) ==
    LET d == sv + tv - 2 IN (d * (d + 3)) \div 2 + (tv - 1)

\* return s+t-2 + t
BufferIndex(sv, tv) == sv + tv - 2 + tv

\* for (d = 0; d <= maxDepth; ++d) for (t = 1; t <= d+2; ++t)
\*     varianceEstimators.emplace_back(...)
NumEstimators ==
    Cardinality({x \in (0..maxDepth) \X (1..(maxDepth + 2)) : x[2] <= x[1] + 2})

AllocEstimators ==
    IF estimateVariances THEN [i \in 0..(NumEstimators - 1) |-> {}] ELSE <<>>

\* varianceEstimators[BufferIndex(s,t)]->AddEstimate(pFilmNew, unweighted);
\* an index beyond the vector's end is undefined behaviour, which leaves
\* the estimators as they are or ends the program
AddVarianceEstimate(sv, tv) ==
    IF estimateVariances /\ BufferIndex(sv, tv) \in DOMAIN varianceEstimators
    THEN [varianceEstimators EXCEPT ![BufferIndex(sv, tv)] = @ \cup {<<sv, tv>>}]
    ELSE varianceEstimators

EstimatorFaults(sv, tv) ==
    IF estimateVariances /\ BufferIndex(sv, tv) \notin DOMAIN varianceEstimators
    THEN BOOLEAN ELSE {FALSE}

\* the arguments of the two calls of renderIterFn
SampleCount(i) ==
    IF i = 0 THEN prepassSamples ELSE samplesPerPixel - prepassSamples
SampleOffset(i) == IF i = 0 THEN 0 ELSE 1
EstimateFactorsInBothPasses(i) == enableRectification
EstimateFactors(i) == IF i = 0 THEN enableRectification ELSE FALSE
RectifyInBothPasses(i) == enableRectification \/ useReferenceVariances
Rectify(i) ==
    IF i = 0 THEN useReferenceVariances
    ELSE enableRectification \/ useReferenceVariances

RenderInit ==
    /\ maxDepth \in 0..MaxDepthBound
    /\ misStrategy \in MisStrategies
    /\ misMod \in MisMods
    /\ useReferenceVariances \in BOOLEAN
    /\ samplesPerPixel \in 1..MaxSamplesPerPixel
    /\ prepassSamples \in 1..samplesPerPixel
    /\ pixelBounds = {0}
    /\ estimateVariances \in BOOLEAN
    /\ hasLights \in BOOLEAN
    /\ pc = "iter"
    /\ iter = 0
    /\ pPixel = 0
    /\ curSample = 0
    /\ sampleIndex = 0
    /\ cameraVertices = AllocVertices(maxDepth + 2)
    /\ lightVertices = AllocVertices(maxDepth + 1)
    /\ nCamera = 0
    /\ nLight = 0
    /\ walk = NoWalk
    /\ t = 0
    /\ s = 0
    /\ L = FZero
    /\ conn = NoConn
    /\ calls = <<>>
    /\ splatLog = <<>>
    /\ filmTile = EmptyFilm.n
    /\ film = EmptyFilm
    /\ frameBuffers = <<>>
    /\ out = NoImage
    /\ workers = NoWorkers
    /\ varianceEstimators = AllocEstimators
    /\ rectifier = [allocated |-> enableRectification \/ useReferenceVariances,
                    estimates |-> FALSE, prepared |-> 0]

----------------------------------------------------------------------------
(* RandomWalk, GenerateCameraSubpath, GenerateLightSubpath *)

\* Vertex::ConvertDensity: a solid-angle density as an area density; a zero
\* density stays zero (hits at grazing angle, where the cosine is 0, are
\* left out)
ConvertDensity(pdf, dom) == IF pdf = 0 THEN {0} ELSE dom.pdf

WalkEvents == {"black", "medium", "escaped", "noBSDF", "surface"}
Lobes == {"fail", "specular", "scatter"}

\* the sets the collaborators' answers are drawn from:
\*   pdf     a density that is not zero (a sampled direction or position)
\*   rev     a density that may be zero (BSDF::Pdf for the reverse direction)
\*   misPdf  a density that ConnectBDPT or MISWeight asks for
\*   kinds   the lights of the scene
\*   fac     the factors of the rectifier
\*   events  what a ray of a random walk can meet
\*   lobes   what BSDF::Sample_f can return
\*   nonSpecular, sampleOk   whether a BSDF has a non-specular component,
\*           whether Sample_Wi / Sample_Li succeeds

\* the driver is run on a scene of emitting and non-emitting diffuse
\* surfaces, without media
RenderDomains ==
    [pdf |-> 1..RenderMaxPdf, rev |-> 1..RenderMaxPdf,
     misPdf |-> 1..RenderMaxPdf,
     kinds |-> {"area"}, fac |-> 1..RenderMaxFactor,
     events |-> {"escaped", "surface"}, lobes |-> {"scatter"},
     nonSpecular |-> {TRUE}, sampleOk |-> BOOLEAN]

\* the heuristics are compared on the same scene, with densities that differ
HeuristicDomains == [RenderDomains EXCEPT !.misPdf = 1..HeuristicMaxPdf]

\* a single sample is taken on a scene with media, specular surfaces and
\* lights of every kind
SampleDomains ==
    [pdf |-> 1..RenderMaxPdf, rev |-> 0..RenderMaxPdf,
     misPdf |-> 1..RenderMaxPdf,
     kinds |-> LightKinds,
     fac |-> 1..RenderMaxFactor,
     events |-> WalkEvents, lobes |-> Lobes,
     nonSpecular |-> BOOLEAN, sampleOk |-> BOOLEAN]

\* the subpath a walk fills: RandomWalk's path[i] is slot i + 1 of it
WalkArray == IF walk.which = "camera" THEN cameraVertices ELSE lightVertices

\* Execute all BDPT connection strategies: the loops start at t = 1, s = 0
EnterStrategies ==
    /\ pc' = "strategy"
    /\ t' = 1
    /\ s' = 0
    /\ L' = FZero
    /\ conn' = NoConn
    /\ calls' = <<>>
    /\ splatLog' = <<>>

\* GenerateLightSubpath after its walk has returned nVertices: the densities
\* of an infinite area light are corrected, and nVertices + 1 is returned
LightSubpathReturn(arr, nVertices, dom) ==
    /\ \E pdfPos \in dom.pdf, density \in dom.pdf :
          lightVertices' =
              IF IsInfiniteLight(arr[0])
              THEN LET a1 == IF nVertices > 0
                             THEN [arr EXCEPT ![1].pdfFwd = pdfPos]
                             ELSE arr
                   IN  [a1 EXCEPT ![0].pdfFwd = density]
              ELSE arr
    /\ nLight' = nVertices + 1
    /\ walk' = NoWalk
    /\ EnterStrategies
    /\ UNCHANGED <<cameraVertices, nCamera>>

\* GenerateCameraSubpath after its walk has returned nVertices
CameraSubpathReturn(arr, nVertices) ==
    /\ cameraVertices' = arr
    /\ nCamera' = nVertices + 1
    /\ walk' = NoWalk
    /\ pc' = "light"
    /\ UNCHANGED <<lightVertices, nLight, connVars>>

\* return bounces
WalkReturn(arr, bounces, dom) ==
    IF walk.which = "camera"
    THEN CameraSubpathReturn(arr, bounces)
    ELSE LightSubpathReturn(arr, bounces, dom)

\* the walk goes on to its next iteration without ++bounces
WalkContinueSameBounces(arr, bounces, pdfFwd, pdfRev) ==
    /\ walk' = [walk EXCEPT !.pdfFwd = pdfFwd, !.pdfRev = pdfRev]
    /\ IF walk.which = "camera"
       THEN cameraVertices' = arr /\ UNCHANGED lightVertices
       ELSE lightVertices' = arr /\ UNCHANGED cameraVertices
    /\ UNCHANGED <<pc, nCamera, nLight, connVars>>

\* the walk goes on to its next iteration with the forward density it had
WalkContinueKeepsPdfFwd(arr, bounces, pdfFwd, pdfRev) ==
    /\ walk' = [walk EXCEPT !.bounces = bounces, !.pdfRev = pdfRev]
    /\ IF walk.which = "camera"
       THEN cameraVertices' = arr /\ UNCHANGED lightVertices
       ELSE lightVertices' = arr /\ UNCHANGED cameraVertices
    /\ UNCHANGED <<pc, nCamera, nLight, connVars>>

\* the walk goes on to its next iteration
WalkContinue(arr, bounces, pdfFwd, pdfRev) ==
    /\ walk' = [walk EXCEPT !.bounces = bounces, !.pdfFwd = pdfFwd,
                            !.pdfRev = pdfRev]
    /\ IF walk.which = "camera"
       THEN cameraVertices' = arr /\ UNCHANGED lightVertices
       ELSE lightVertices' = arr /\ UNCHANGED cameraVertices
    /\ UNCHANGED <<pc, nCamera, nLight, connVars>>

\* ++bounces >= maxDepth, with the comparison off by one
WalkDepthReachedLate(bounces, depth) == bounces > depth

\* ++bounces >= maxDepth
WalkDepthReached(bounces, depth) == bounces >= depth

\* one iteration of the loop of RandomWalk
RandomWalkStep(dom) ==
    /\ pc = "walk"
    /\ LET arr == WalkArray
           b == walk.bounces
       IN
       \/ \* beta.IsBlack() after the medium was sampled
          /\ "black" \in dom.events
          /\ WalkReturn(arr, b, dom)
       \/ \* a medium interaction
          /\ "medium" \in dom.events
          /\ \E fwd \in ConvertDensity(walk.pdfFwd, dom) :
             LET a1 == [arr EXCEPT ![b + 1] = MkVertex("Medium", fwd, "none")]
             IN  IF WalkDepthReached(b + 1, walk.maxDepth)
                 THEN WalkReturn(a1, b + 1, dom)
                 ELSE \E phase \in dom.pdf :
                      \E rev \in ConvertDensity(phase, dom) :
                         WalkContinue([a1 EXCEPT ![b].pdfRev = rev,
                                                 ![b].revSet = TRUE],
                                      b + 1, phase, phase)
       \/ \* no intersection: the ray escapes
          /\ "escaped" \in dom.events
          /\ IF walk.mode = "Radiance"
             THEN WalkReturn([arr EXCEPT
                              ![b + 1] = MkVertex("Light", walk.pdfFwd, "none")],
                             b + 1, dom)
             ELSE WalkReturn(arr, b, dom)
       \/ \* a medium boundary without BSDF: the ray goes on, bounces stays
          /\ "noBSDF" \in dom.events
          /\ UNCHANGED <<pc, pathVars, connVars>>
       \/ \* a surface interaction
          /\ "surface" \in dom.events
          /\ \E fwd \in ConvertDensity(walk.pdfFwd, dom) :
             LET a1 == [arr EXCEPT ![b + 1] = MkVertex("Surface", fwd, "none")]
             IN  IF WalkDepthReached(b + 1, walk.maxDepth)
                 THEN WalkReturn(a1, b + 1, dom)
                 ELSE \/ \* f.IsBlack() || pdfFwd == 0
                         /\ "fail" \in dom.lobes
                         /\ WalkReturn(a1, b + 1, dom)
                      \/ \* a specular lobe was sampled
                         /\ "specular" \in dom.lobes
                         /\ WalkContinue([a1 EXCEPT ![b + 1].delta = TRUE,
                                                    ![b].pdfRev = 0,
                                                    ![b].revSet = TRUE],
                                         b + 1, 0, 0)
                      \/ \* a non-specular lobe was sampled
                         /\ "scatter" \in dom.lobes
                         /\ \E f \in dom.pdf, r \in dom.rev :
                            \E rev \in ConvertDensity(r, dom) :
                               WalkContinue([a1 EXCEPT ![b].pdfRev = rev,
                                                       ![b].revSet = TRUE],
                                            b + 1, f, r)
    /\ UNCHANGED <<cfgVars, workers, varianceEstimators, iter, loopVars, filmVars, rectifier>>

\* RandomWalk(..., maxDepth, mode, path + 1) called for the subpath `which`
\* whose first vertex is in arr: if (maxDepth == 0) return 0
RandomWalkEnter(which, mode, arr, pdf, depth, dom) ==
    IF depth = 0
    THEN IF which = "camera"
         THEN CameraSubpathReturn(arr, 0)
         ELSE LightSubpathReturn(arr, 0, dom)
    ELSE /\ walk' = [which |-> which, mode |-> mode, maxDepth |-> depth,
                     bounces |-> 0, pdfFwd |-> pdf, pdfRev |-> 0]
         /\ pc' = "walk"
         /\ IF which = "camera"
            THEN cameraVertices' = arr /\ UNCHANGED <<lightVertices, nCamera, nLight>>
            ELSE lightVertices' = arr /\ UNCHANGED <<cameraVertices, nCamera, nLight>>
         /\ UNCHANGED connVars

\* the start of a pixel sample: the two arrays are allocated and
\* GenerateCameraSubpath(scene, sampler, arena, maxDepth + 2, ...) is called
GenerateCameraSubpath(dom) ==
    /\ pc = "camera"
    /\ \E pdfDir \in dom.pdf :
          RandomWalkEnter("camera", "Radiance",
                          [AllocVertices(maxDepth + 2) EXCEPT
                              ![0] = MkVertex("Camera", 0, "none")],
                          pdfDir, (maxDepth + 2) - 1, dom)
    /\ UNCHANGED <<cfgVars, workers, varianceEstimators, iter, loopVars, filmVars, rectifier>>

\* GenerateLightSubpath(scene, sampler, arena, maxDepth + 1, ...)
GenerateLightSubpath(dom) ==
    /\ pc = "light"
    /\ \/ \* pdfPos == 0 || pdfDir == 0 || Le.IsBlack(): return 0
          /\ nLight' = 0
          /\ EnterStrategies
          /\ UNCHANGED <<cameraVertices, lightVertices, nCamera, walk>>
       \/ \E kind \in dom.kinds, pdfPos \in dom.pdf, pdfDir \in dom.pdf :
             RandomWalkEnter("light", "Importance",
                             [lightVertices EXCEPT
                                 ![0] = MkVertex("Light", pdfPos, kind)],
                             pdfDir, (maxDepth + 1) - 1, dom)
    /\ UNCHANGED <<cfgVars, workers, varianceEstimators, iter, loopVars, filmVars, rectifier>>

----------------------------------------------------------------------------
(* The strategy loop of a pixel sample *)

\* a contribution is black (0) or not
RadianceValues == {0, 1}

\* what the scene can return to ConnectBDPT(s, t) before the weight is
\* computed; an answer the call never asks for is fixed
ContributionOracles(mem, sv, tv, pFilm, dom) ==
    LET qsSurface == sv >= 1 /\ mem.light[sv - 1].type = "Surface"
        ptSurface == mem.camera[tv - 1].type = "Surface"
    IN  [qsConn : IF qsSurface /\ (tv = 1 \/ sv >= 2)
                  THEN dom.nonSpecular ELSE {TRUE},
         ptConn : IF ptSurface /\ sv >= 1 /\ tv >= 2
                  THEN dom.nonSpecular ELSE {TRUE},
         ptAreaLight : IF ptSurface /\ sv = 0 THEN BOOLEAN ELSE {FALSE},
         sampleOk : IF sv >= 1 /\ (tv = 1 \/ sv = 1)
                    THEN dom.sampleOk ELSE {TRUE},
         Lval : RadianceValues,
         pRaster : IF sv >= 1 /\ tv = 1 THEN Pixels ELSE {pFilm},
         sampledPdf : IF sv = 1 /\ tv >= 2 THEN dom.misPdf ELSE {0},
         sampledLight : IF sv = 1 /\ tv >= 2 THEN dom.kinds ELSE {"none"}]

NoMISOracle ==
    [pdfs |-> [pt |-> 0, ptMinus |-> 0, qs |-> 0, qsMinus |-> 0], fac |-> <<>>]

\* what MISWeight(s, t) can read: the densities Vertex::Pdf, PdfLight and
\* PdfLightOrigin return, and the factors of the rectifier
MISOracles(sv, tv, called, rect, dom) ==
    IF ~called \/ sv + tv = 2 THEN {NoMISOracle}
    ELSE [pdfs : [pt : dom.misPdf,
                  ptMinus : IF tv > 1 THEN dom.misPdf ELSE {0},
                  qs : IF sv > 0 THEN dom.misPdf ELSE {0},
                  qsMinus : IF sv > 1 THEN dom.misPdf ELSE {0}],
          fac : IF rect THEN [1..(sv + tv) -> dom.fac] ELSE {<<>>}]

JoinOracle(o1, o2) ==
    [qsConn |-> o1.qsConn, ptConn |-> o1.ptConn, ptAreaLight |-> o1.ptAreaLight,
     sampleOk |-> o1.sampleOk, Lval |-> o1.Lval, pRaster |-> o1.pRaster,
     sampledPdf |-> o1.sampledPdf, sampledLight |-> o1.sampledLight,
     pdfs |-> o2.pdfs, fac |-> o2.fac]

\* the unweighted contribution of ConnectBDPT under o1
Contributes(mem, sv, tv, o1) ==
    ConnectBDPT(mem, sv, tv, 0, FZero, FALSE, "balance",
                JoinOracle(o1, NoMISOracle)).unweighted # 0

\* (s == 1 && t == 1) || depth < 0 || depth > maxDepth, without the (1,1) case
SkipStrategyKeepsOneOne(sv, tv) ==
    LET depth == tv + sv - 2 IN depth < 0 \/ depth > maxDepth

\* (s == 1 && t == 1) || depth < 0 || depth > maxDepth
SkipStrategy(sv, tv) ==
    LET depth == tv + sv - 2
    IN  (sv = 1 /\ tv = 1) \/ depth < 0 \/ depth > maxDepth

\* if (t != 1) L += Lpath; else film->AddSplat(pFilmNew, Lpath), on s
AddsToPixelByS(sv, tv) == sv # 1

\* if (t != 1) L += Lpath; else film->AddSplat(pFilmNew, Lpath)
AddsToPixel(sv, tv) == tv # 1

\* Lpath / misWeight, whatever the two are
UnweightedUnguarded(Lpath, misWeight) == FDiv(Lpath, misWeight)

\* (misWeight == 0 || Lpath == 0) ? 0 : (Lpath / misWeight)
Unweighted(Lpath, misWeight) ==
    IF FIsZero(misWeight) \/ FIsZero(Lpath) THEN FZero ELSE FDiv(Lpath, misWeight)

\* what a call of ConnectBDPT(s, t) leaves in Lpath, pFilmNew and misWeight,
\* with what was asked on the way; b is the same call under the balance
\* heuristic
ConnRecord(r, b, estimated) ==
    [s |-> s, t |-> t, executed |-> TRUE,
     Lpath |-> r.L, unweighted |-> r.unweighted,
     misWeight |-> r.misWeight, balanceWeight |-> b.misWeight,
     pFilmNew |-> r.pRaster, sampledWi |-> r.sampledWi,
     misCalled |-> r.misCalled, gets |-> r.gets, invalid |-> r.invalid,
     mode |-> IF r.misCalled THEN misStrategy ELSE "none",
     estimated |-> estimated,
     estimate |-> Unweighted(r.L, r.misWeight),
     bufferIndex |-> IF estimateVariances THEN BufferIndex(s, t) ELSE -1,
     derefs |-> r.derefs, unsetReads |-> r.unsetReads]

\* the loop over s with the condition s <= nLight + 1
NextStrategyPastEnd ==
    IF s < nLight + 1
    THEN s' = s + 1 /\ t' = t /\ pc' = "strategy"
    ELSE /\ s' = 0
         /\ t' = t + 1
         /\ pc' = IF t < nCamera THEN "strategy" ELSE "addSample"

\* ++s, and ++t with s = 0 once s has passed nLight; the sample is complete
\* once t has passed nCamera
NextStrategy ==
    IF s < nLight
    THEN s' = s + 1 /\ t' = t /\ pc' = "strategy"
    ELSE /\ s' = 0
         /\ t' = t + 1
         /\ pc' = IF t < nCamera THEN "strategy" ELSE "addSample"

\* one iteration of the loop over (t, s)
StrategyStep(dom) ==
    /\ pc = "strategy"
    /\ IF SkipStrategy(s, t)
       THEN NextStrategy
       ELSE \E fault \in EstimatorFaults(s, t) :
               IF fault THEN pc' = "fault" /\ s' = s /\ t' = t
               ELSE NextStrategy
    /\ IF SkipStrategy(s, t)
       THEN UNCHANGED <<cameraVertices, lightVertices, L, conn, calls,
                        splatLog, film, rectifier, varianceEstimators>>
       ELSE LET mem == [camera |-> cameraVertices, light |-> lightVertices]
                pFilm == pPixel
                rect == Rectify(iter)
            IN  \E o1 \in ContributionOracles(mem, s, t, pFilm, dom) :
                \E o2 \in MISOracles(s, t, Contributes(mem, s, t, o1), rect,
                                     dom) :
                \E r \in {ConnectBDPT(mem, s, t, pFilm, FZero, rect,
                                       misStrategy, JoinOracle(o1, o2))},
                   b \in {ConnectBDPT(mem, s, t, pFilm, FZero, rect,
                                       "balance", JoinOracle(o1, o2))} :
                       /\ cameraVertices' = r.mem.camera
                       /\ lightVertices' = r.mem.light
                       /\ IF AddsToPixel(s, t)
                          THEN /\ L' = FAdd(L, r.L)
                               /\ UNCHANGED <<splatLog, film>>
                          ELSE /\ L' = L
                               /\ splatLog' = Append(splatLog,
                                      [pos |-> r.pRaster, L |-> r.L])
                               /\ film' = [film EXCEPT
                                              !.splat[r.pRaster] = @ + 1]
                       /\ rectifier' =
                              IF EstimateFactors(iter)
                              THEN [rectifier EXCEPT !.estimates = TRUE]
                              ELSE rectifier
                       /\ conn' = ConnRecord(r, b, EstimateFactors(iter))
                       /\ calls' = Append(calls, <<s, t>>)
                       /\ varianceEstimators' = AddVarianceEstimate(s, t)
    /\ UNCHANGED <<cfgVars, workers, iter, loopVars, nCamera, nLight, walk, filmTile,
                   frameBuffers, out>>

----------------------------------------------------------------------------
(* The driver: renderIterFn, the two passes and the merge *)

\* renderIterFn is entered: the tile is rendered if the scene has lights
RenderIterBegin ==
    /\ pc = "iter"
    /\ IF hasLights
       THEN pc' = "pixel" /\ pPixel' = 0
       ELSE pc' = "capture" /\ pPixel' = pPixel
    /\ filmTile' = EmptyFilm.n
    /\ UNCHANGED <<cfgVars, workers, varianceEstimators, iter, curSample, sampleIndex, pathVars, connVars,
                   film, frameBuffers, out, rectifier>>

\* the pixel loop goes to the next pixel of the tile, or the tile is done
NextPixel ==
    IF pPixel + 1 < NumPixels
    THEN pPixel' = pPixel + 1 /\ pc' = "pixel"
    ELSE pPixel' = pPixel /\ pc' = "mergeTile"

\* StartPixel, SetSampleNumber(sampleOffset), curSample = 1; a pixel outside
\* pixelBounds is passed over
StartPixel ==
    /\ pc = "pixel"
    /\ sampleIndex' = SampleOffset(iter)
    /\ curSample' = 1
    /\ IF pPixel \notin pixelBounds
       THEN NextPixel
       ELSE pc' = "camera" /\ pPixel' = pPixel
    /\ UNCHANGED <<cfgVars, workers, varianceEstimators, iter, pathVars, connVars, filmVars, rectifier>>

\* Sampler::StartNextSample: ++currentPixelSampleIndex < samplesPerPixel
StartNextSample(index) == index + 1 < samplesPerPixel

\* filmTile->AddSample(pFilm, L); arena.Reset(); then the condition of the
\* do-while loop: curSample++ < sampleCount && tileSampler->StartNextSample()
AddSample ==
    /\ pc = "addSample"
    /\ filmTile' = [filmTile EXCEPT ![pPixel] = @ + 1]
    /\ cameraVertices' = AllocVertices(maxDepth + 2)
    /\ lightVertices' = AllocVertices(maxDepth + 1)
    /\ nCamera' = 0
    /\ nLight' = 0
    /\ t' = 0
    /\ s' = 0
    /\ L' = FZero
    /\ conn' = NoConn
    /\ calls' = <<>>
    /\ splatLog' = <<>>
    /\ curSample' = curSample + 1
    /\ IF curSample < SampleCount(iter)
       THEN /\ sampleIndex' = sampleIndex + 1
            /\ IF StartNextSample(sampleIndex)
               THEN pc' = "camera" /\ pPixel' = pPixel
               ELSE NextPixel
       ELSE /\ sampleIndex' = sampleIndex
            /\ NextPixel
    /\ UNCHANGED <<cfgVars, workers, varianceEstimators, iter, walk, film, frameBuffers, out, rectifier>>

\* film->MergeFilmTile(std::move(filmTile))
MergeFilmTile ==
    /\ pc = "mergeTile"
    /\ film' = [film EXCEPT !.n = [p \in Pixels |-> @[p] + filmTile[p]]]
    /\ filmTile' = EmptyFilm.n
    /\ pc' = "capture"
    /\ UNCHANGED <<cfgVars, workers, varianceEstimators, iter, loopVars, pathVars, connVars, frameBuffers,
                   out, rectifier>>

\* frameBuffers.emplace_back(film->WriteImageToBuffer(1.0f / sampleCount));
\* film->Clear()
CaptureBuffer ==
    /\ pc = "capture"
    /\ frameBuffers' = Append(frameBuffers,
                              [sampleCount |-> SampleCount(iter),
                               n |-> film.n, splat |-> film.splat])
    /\ film' = EmptyFilm
    /\ pc' = IF iter = 0 THEN "prepare" ELSE "blend"
    /\ UNCHANGED <<cfgVars, workers, varianceEstimators, iter, loopVars, pathVars, connVars, filmTile,
                   out, rectifier>>

\* between the passes: if (enableRectification) rectifier->Prepare(...);
\* then renderIterFn is called for the main pass
Prepare ==
    /\ pc = "prepare"
    /\ rectifier' = IF enableRectification
                    THEN [rectifier EXCEPT !.prepared = @ + 1]
                    ELSE rectifier
    /\ iter' = 1
    /\ pc' = "iter"
    /\ UNCHANGED <<cfgVars, workers, varianceEstimators, loopVars, pathVars, connVars, filmVars>>

\* Float invSampleCount = 1.0f / sampler->samplesPerPixel
invSampleCount == Frac(1, samplesPerPixel)

\* Float weightPrepass = prepassSamples * invSampleCount
weightPrepass == FMul(FInt(prepassSamples), invSampleCount)

\* the weight of the main pass, with all the samples of the pixel
weightRectifiedOfAllSamples == FMul(FInt(samplesPerPixel), invSampleCount)

\* Float weightRectified = (samplesPerPixel - prepassSamples) * invSampleCount
weightRectified == FMul(FInt(samplesPerPixel - prepassSamples), invSampleCount)

\* the value of a pixel in a captured buffer: the film is modelled by the
\* number of samples that each pixel holds
BufferValue(buffer, p) == FInt(buffer.n[p])

\* one channel of one pixel of the merge; isMasked is what
\* rectifier->IsMasked(px) returns
MergePixel(prepass, rectified, isMasked) ==
    IF enableRectification /\ isMasked
    THEN rectified
    ELSE FAdd(FMul(prepass, weightPrepass), FMul(rectified, weightRectified))

\* the answers of IsMasked, which is asked with a rectification scheme only
MaskAnswers ==
    IF enableRectification THEN [Pixels -> BOOLEAN]
    ELSE {[p \in Pixels |-> FALSE]}

\* the buffers are weighted and merged, and the image is written; out is
\* frameBuffers[0] in the code, each element of which is read before it is
\* written
Blend ==
    /\ pc = "blend"
    /\ \E isMasked \in MaskAnswers :
          out' = [merged |-> TRUE,
                  masked |-> isMasked,
                  px |-> [p \in Pixels |->
                            MergePixel(BufferValue(frameBuffers[1], p),
                                       BufferValue(frameBuffers[2], p),
                                       isMasked[p])]]
    /\ pc' = "done"
    /\ UNCHANGED <<cfgVars, workers, varianceEstimators, iter, loopVars, pathVars, connVars, filmTile, film,
                   frameBuffers, rectifier>>

RenderNext(dom) ==
    \/ RenderIterBegin
    \/ StartPixel
    \/ GenerateCameraSubpath(dom)
    \/ GenerateLightSubpath(dom)
    \/ RandomWalkStep(dom)
    \/ StrategyStep(dom)
    \/ AddSample
    \/ MergeFilmTile
    \/ CaptureBuffer
    \/ Prepare
    \/ Blend

\* Render, for every configuration without the estimators of the reference
\* variances
Init == RenderInit /\ estimateVariances = FALSE
Next == RenderNext(RenderDomains)
Spec == Init /\ [][Next]_vars

\* Render with one sample per pixel and pass
SampleInit ==
    /\ RenderInit
    /\ estimateVariances = FALSE
    /\ samplesPerPixel = 1
    /\ misMod = "moment"
    /\ useReferenceVariances = FALSE
    /\ hasLights
SampleNext == RenderNext(SampleDomains)
SpecSample == SampleInit /\ [][SampleNext]_vars

\* the same, where the loop of RandomWalk does not meet medium boundaries
\* without BSDF for ever: an iteration that changes nothing is the passage
\* of such a boundary, and the ray meets something else in the end
WalkFairness == WF_vars(RandomWalkStep(SampleDomains))
SpecWalk == SampleInit /\ [][SampleNext]_vars /\ WalkFairness

\* Render with one sample per pixel and pass, for every heuristic
HeuristicInit ==
    /\ RenderInit
    /\ estimateVariances = FALSE
    /\ maxDepth = MaxDepthBound
    /\ samplesPerPixel = 1
    /\ misMod = "moment"
    /\ useReferenceVariances = FALSE
    /\ hasLights
HeuristicNext == RenderNext(HeuristicDomains)
SpecHeuristic == HeuristicInit /\ [][HeuristicNext]_vars

\* Render with the estimators of the reference variances, one sample per
\* pixel and pass
VarianceInit ==
    /\ RenderInit
    /\ estimateVariances = TRUE
    /\ misStrategy = "balance"
    /\ samplesPerPixel = 1
    /\ misMod = "none"
    /\ useReferenceVariances = FALSE
    /\ hasLights
VarianceNext == RenderNext(RenderDomains)
SpecVariance == VarianceInit /\ [][VarianceNext]_vars

----------------------------------------------------------------------------
(* ParallelFor2D: the tiles of a pass are rendered by concurrent workers.
   A pixel sample is one call of AddSplat on the film, which stands for the
   strategies with t = 1, and one call of AddSample on the worker's tile *)

\* the sampler of a tile is a clone seeded by the tile and the pass, so what
\* a sample adds is a function of its pixel and its index: it splats here
SplatTarget(p, index) == (p * (index + 1)) % NumPixels

\* the worker goes to the next pixel of its tile, or the tile is done
TileNextPixel(w, tile) ==
    IF w.pPixel + 1 \in TileBounds(tile)
    THEN [w EXCEPT !.pPixel = @ + 1, !.pc = "startPixel"]
    ELSE [w EXCEPT !.pc = "merge"]

\* the film is what the tile workers share
TileFrame ==
    UNCHANGED <<cfgVars, pc, iter, loopVars, pathVars, connVars, filmTile,
                frameBuffers, out, rectifier, varianceEstimators>>

\* ParallelFor2D hands the tile to a worker: GetFilmTile(tileBounds)
TileBegin(tile) ==
    /\ pc = "pixel"
    /\ workers[tile].pass # iter
    /\ workers' = [workers EXCEPT ![tile] =
                      [pc |-> "startPixel", pass |-> iter,
                       pPixel |-> tile * TileSize, curSample |-> 0,
                       sampleIndex |-> 0, filmTile |-> EmptyFilm.n,
                       merges |-> 0]]
    /\ UNCHANGED film
    /\ TileFrame

\* StartPixel, SetSampleNumber(sampleOffset), curSample = 1; a pixel outside
\* pixelBounds is passed over
TileStartPixel(tile) ==
    /\ pc = "pixel"
    /\ workers[tile].pc = "startPixel"
    /\ LET w == [workers[tile] EXCEPT !.sampleIndex = SampleOffset(iter),
                                       !.curSample = 1]
       IN  workers' = [workers EXCEPT ![tile] =
                          IF w.pPixel \notin pixelBounds
                          THEN TileNextPixel(w, tile)
                          ELSE [w EXCEPT !.pc = "sample"]]
    /\ UNCHANGED film
    /\ TileFrame

\* film->AddSplat(pFilmNew, Lpath), atomic
TileSplat(tile) ==
    /\ pc = "pixel"
    /\ workers[tile].pc = "sample"
    /\ film' = [film EXCEPT
                   !.splat[SplatTarget(workers[tile].pPixel,
                                       workers[tile].sampleIndex)] = @ + 1]
    /\ workers' = [workers EXCEPT ![tile].pc = "addSample"]
    /\ TileFrame

\* filmTile->AddSample(pFilm, L), then the condition of the do-while loop
TileAddSample(tile) ==
    /\ pc = "pixel"
    /\ workers[tile].pc = "addSample"
    /\ LET w == [workers[tile] EXCEPT !.filmTile[workers[tile].pPixel] = @ + 1,
                                       !.curSample = @ + 1]
           cur == workers[tile].curSample
           index == workers[tile].sampleIndex
       IN  workers' = [workers EXCEPT ![tile] =
                          IF cur < SampleCount(iter)
                          THEN IF StartNextSample(index)
                               THEN [w EXCEPT !.sampleIndex = index + 1,
                                              !.pc = "sample"]
                               ELSE TileNextPixel(
                                        [w EXCEPT !.sampleIndex = index + 1],
                                        tile)
                          ELSE TileNextPixel(w, tile)]
    /\ UNCHANGED film
    /\ TileFrame

\* film->MergeFilmTile(std::move(filmTile)), atomic
TileMerge(tile) ==
    /\ pc = "pixel"
    /\ workers[tile].pc = "merge"
    /\ film' = [film EXCEPT
                   !.n = [p \in Pixels |-> @[p] + workers[tile].filmTile[p]]]
    /\ workers' = [workers EXCEPT ![tile].pc = "done",
                                  ![tile].filmTile = EmptyFilm.n,
                                  ![tile].merges = @ + 1]
    /\ TileFrame

\* ParallelFor2D returns as soon as one tile is done
ParallelJoinAny ==
    /\ pc = "pixel"
    /\ \E tile \in Tiles :
          workers[tile].pass = iter /\ workers[tile].pc = "done"
    /\ pc' = "capture"
    /\ UNCHANGED <<cfgVars, iter, loopVars, pathVars, connVars, filmVars,
                   rectifier, workers, varianceEstimators>>

\* ParallelFor2D returns once every tile is done
ParallelJoin ==
    /\ pc = "pixel"
    /\ \A tile \in Tiles :
          workers[tile].pass = iter /\ workers[tile].pc = "done"
    /\ pc' = "capture"
    /\ UNCHANGED <<cfgVars, iter, loopVars, pathVars, connVars, filmVars,
                   rectifier, workers, varianceEstimators>>

\* Render with concurrent tiles
TilesInit ==
    /\ maxDepth = 0
    /\ misStrategy = "balance"
    /\ misMod = "none"
    /\ useReferenceVariances = FALSE
    /\ samplesPerPixel \in 1..MaxSamplesPerPixel
    /\ prepassSamples \in 1..samplesPerPixel
    /\ pixelBounds \in {Pixels, Pixels \ {0}}
    /\ estimateVariances = FALSE
    /\ hasLights \in BOOLEAN
    /\ pc = "iter"
    /\ iter = 0
    /\ pPixel = 0
    /\ curSample = 0
    /\ sampleIndex = 0
    /\ cameraVertices = AllocVertices(maxDepth + 2)
    /\ lightVertices = AllocVertices(maxDepth + 1)
    /\ nCamera = 0
    /\ nLight = 0
    /\ walk = NoWalk
    /\ t = 0
    /\ s = 0
    /\ L = FZero
    /\ conn = NoConn
    /\ calls = <<>>
    /\ splatLog = <<>>
    /\ filmTile = EmptyFilm.n
    /\ film = EmptyFilm
    /\ frameBuffers = <<>>
    /\ out = NoImage
    /\ workers = NoWorkers
    /\ varianceEstimators = AllocEstimators
    /\ rectifier = [allocated |-> FALSE, estimates |-> FALSE, prepared |-> 0]

TilesNext ==
    \/ RenderIterBegin
    \/ \E tile \in Tiles : TileBegin(tile)
    \/ \E tile \in Tiles : TileStartPixel(tile)
    \/ \E tile \in Tiles : TileSplat(tile)
    \/ \E tile \in Tiles : TileAddSample(tile)
    \/ \E tile \in Tiles : TileMerge(tile)
    \/ ParallelJoin
    \/ CaptureBuffer
    \/ Prepare
    \/ Blend
SpecTiles == TilesInit /\ [][TilesNext]_vars

----------------------------------------------------------------------------
(* ConnectBDPT on its own: one call for given subpaths *)

\* forward densities from 1 on, densities MISWeight asks for that are zero
\* or not, factors from 1 on, specular and non-specular vertices, lights with
\* and without a delta distribution
MISDomains ==
    [pdf |-> 1..MISMaxPdf, rev |-> 0..MISMaxPdf, misPdf |-> {0, MISMaxPdf},
     kinds |-> {"area", "deltaPosition"}, fac |-> 1..MISMaxFactor,
     events |-> WalkEvents, lobes |-> Lobes,
     nonSpecular |-> BOOLEAN, sampleOk |-> BOOLEAN]

\* the reverse density the walks left in a vertex that MISWeight overwrites
MISStoredPdfRev == 1

\* a camera subpath of n vertices as GenerateCameraSubpath leaves it
CameraSubpaths(n, dom) ==
    {a \in [0..(n - 1) ->
               {[MkVertex(ty, f, "none") EXCEPT !.delta = d,
                                               !.pdfRev = MISStoredPdfRev] :
                    ty \in {"Camera", "Surface"}, f \in {0} \cup dom.pdf,
                    d \in BOOLEAN}] :
        \A i \in 0..(n - 1) :
            /\ a[i].type = "Camera" <=> i = 0
            /\ a[i].pdfFwd = 0 <=> i = 0
            /\ a[i].delta => i > 0}

\* a light subpath of n vertices as GenerateLightSubpath leaves it
LightSubpaths(n, dom) ==
    {a \in [0..(n - 1) ->
               {[MkVertex(ty, f, k) EXCEPT !.delta = d,
                                          !.pdfRev = MISStoredPdfRev] :
                    ty \in {"Light", "Surface"}, f \in dom.pdf,
                    k \in {"none"} \cup dom.kinds, d \in BOOLEAN}] :
        \A i \in 0..(n - 1) :
            /\ a[i].type = "Light" <=> i = 0
            /\ a[i].light # "none" <=> i = 0
            /\ a[i].delta => i > 0}

\* ConnectBDPT(lightVertices, cameraVertices, s, t, ...) is called
ConnectStep(dom) ==
    /\ pc = "connect"
    /\ LET mem == [camera |-> cameraVertices, light |-> lightVertices]
           rect == rectifier.allocated
       IN  \E o1 \in ContributionOracles(mem, s, t, pPixel, dom) :
           \E o2 \in MISOracles(s, t, Contributes(mem, s, t, o1), rect, dom) :
           \E r \in {ConnectBDPT(mem, s, t, pPixel, FZero, rect, misStrategy,
                                  JoinOracle(o1, o2))},
              b \in {ConnectBDPT(mem, s, t, pPixel, FZero, rect, "balance",
                                  JoinOracle(o1, o2))} :
              /\ cameraVertices' = r.mem.camera
              /\ lightVertices' = r.mem.light
              /\ conn' = ConnRecord(r, b, FALSE)
              /\ calls' = Append(calls, <<s, t>>)
    /\ pc' = "connected"
    /\ UNCHANGED <<cfgVars, workers, varianceEstimators, iter, loopVars, nCamera, nLight, walk, t, s, L,
                   splatLog, filmVars, rectifier>>

\* one call for every pair of subpaths of at most MISMaxLen vertices, every
\* heuristic, with and without a rectifier
MISInit ==
    /\ s \in 0..MISMaxLen
    /\ t \in 1..MISMaxLen
    /\ maxDepth = MISMaxLen
    /\ misStrategy \in MisStrategies
    /\ misMod = "none"
    /\ useReferenceVariances \in BOOLEAN
    /\ samplesPerPixel = 1
    /\ prepassSamples = 1
    /\ pixelBounds = {0}
    /\ estimateVariances = FALSE
    /\ hasLights = TRUE
    /\ pc = "connect"
    /\ iter = 0
    /\ pPixel = 0
    /\ curSample = 1
    /\ sampleIndex = 0
    /\ cameraVertices \in CameraSubpaths(t, MISDomains)
    /\ lightVertices \in LightSubpaths(s, MISDomains)
    /\ nCamera = t
    /\ nLight = s
    /\ walk = NoWalk
    /\ L = FZero
    /\ conn = NoConn
    /\ calls = <<>>
    /\ splatLog = <<>>
    /\ filmTile = EmptyFilm.n
    /\ film = EmptyFilm
    /\ frameBuffers = <<>>
    /\ out = NoImage
    /\ workers = NoWorkers
    /\ varianceEstimators = AllocEstimators
    /\ rectifier = [allocated |-> useReferenceVariances,
                    estimates |-> FALSE, prepared |-> 0]
MISNext == ConnectStep(MISDomains)
SpecMIS == MISInit /\ [][MISNext]_vars

----------------------------------------------------------------------------
(* MISWeight for every decomposition of one path *)

\* a path x[0] .. x[k-1] from a light to the camera as the light subpath
\* would hold it: pdfFwd is the density of x[i] sampled from the light,
\* pdfRev its density sampled from the camera; there is no delta vertex and
\* the light has no delta distribution
PathsAsLightSubpath(k) ==
    {a \in [0..(k - 1) ->
               {[MkVertex(ty, f, lt) EXCEPT !.pdfRev = r] :
                    ty \in {"Light", "Surface"}, lt \in {"none", "area"},
                    f \in 1..PathMaxPdf, r \in 1..PathMaxPdf}] :
        /\ \A i \in 0..(k - 1) :
              /\ a[i].type = "Light" <=> i = 0
              /\ a[i].light = "area" <=> i = 0
        /\ a[k - 1].pdfFwd = 1
        /\ a[k - 1].pdfRev = 1}

\* the same path as the camera subpath would hold it: vertex j is
\* x[k-1-j] and the two densities change places; vertex 0 is the camera
PathAsCameraSubpath(a, k) ==
    [j \in 0..(k - 1) |->
        IF j = 0 THEN [MkVertex("Camera", 0, "none") EXCEPT !.pdfRev = 1]
        ELSE [MkVertex("Surface", a[k - 1 - j].pdfRev, "none")
                  EXCEPT !.pdfRev = a[k - 1 - j].pdfFwd]]

\* the densities MISWeight(s, t) asks for, which are those of the path
PathPdfs(mem, sv, tv) ==
    [pt |-> mem.camera[tv - 1].pdfRev,
     ptMinus |-> IF tv > 1 THEN mem.camera[tv - 2].pdfRev ELSE 0,
     qs |-> IF sv > 0 THEN mem.light[sv - 1].pdfRev ELSE 0,
     qsMinus |-> IF sv > 1 THEN mem.light[sv - 2].pdfRev ELSE 0]

\* the vertex that ConnectBDPT samples for s = 1 or t = 1
PathSampled(mem, sv, tv) ==
    IF sv = 1 THEN MkVertex("Light", mem.light[0].pdfFwd, "area")
    ELSE IF tv = 1 THEN MkVertex("Camera", 0, "none")
    ELSE DefaultVertex

\* MISWeight for the decomposition (s, t) of the path, with no rectifier;
\* L is the sum of the weights so far
WeighDecomposition ==
    /\ pc = "weigh"
    /\ LET mem == [camera |-> cameraVertices, light |-> lightVertices]
       IN  \E r \in {MISWeight(mem, PathSampled(mem, s, t), s, t,
                                PathPdfs(mem, s, t), FALSE, <<>>,
                                misStrategy)} :
              /\ cameraVertices' = r.mem.camera
              /\ lightVertices' = r.mem.light
              /\ L' = FAdd(L, r.weight)
    /\ calls' = Append(calls, <<s, t>>)
    /\ s' = s + 1
    /\ t' = t - 1
    /\ pc' = IF t > 1 THEN "weigh" ELSE "weighed"
    /\ UNCHANGED <<cfgVars, workers, varianceEstimators, iter, loopVars, nCamera, nLight, walk, conn,
                   splatLog, filmVars, rectifier>>

\* every path of 2 to MaxPathLen vertices with densities up to PathMaxPdf,
\* under the balance heuristic; the first decomposition is (0, k)
PathInit ==
    /\ nLight \in 2..MaxPathLen
    /\ nCamera = nLight
    /\ maxDepth = nLight - 2
    /\ misStrategy = "balance"
    /\ misMod = "none"
    /\ useReferenceVariances = FALSE
    /\ samplesPerPixel = 1
    /\ prepassSamples = 1
    /\ pixelBounds = {0}
    /\ estimateVariances = FALSE
    /\ hasLights = TRUE
    /\ pc = "weigh"
    /\ iter = 0
    /\ pPixel = 0
    /\ curSample = 1
    /\ sampleIndex = 0
    /\ lightVertices \in PathsAsLightSubpath(nLight)
    /\ cameraVertices = PathAsCameraSubpath(lightVertices, nLight)
    /\ walk = NoWalk
    /\ s = 0
    /\ t = nLight
    /\ L = FZero
    /\ conn = NoConn
    /\ calls = <<>>
    /\ splatLog = <<>>
    /\ filmTile = EmptyFilm.n
    /\ film = EmptyFilm
    /\ frameBuffers = <<>>
    /\ out = NoImage
    /\ workers = NoWorkers
    /\ varianceEstimators = AllocEstimators
    /\ rectifier = [allocated |-> FALSE, estimates |-> FALSE, prepared |-> 0]
PathNext == WeighDecomposition
SpecPath == PathInit /\ [][PathNext]_vars

----------------------------------------------------------------------------
(* The merge on its own: two captured buffers are weighted and merged *)

\* the buffers that the two passes can have captured
CapturedBuffers(count) ==
    [sampleCount : {count}, n : [Pixels -> 0..MergeMaxValue],
     splat : {EmptyFilm.splat}]

\* Render has captured the buffers of both passes
MergeInit ==
    /\ maxDepth = 0
    /\ misStrategy = "balance"
    /\ misMod \in MisMods
    /\ useReferenceVariances = FALSE
    /\ samplesPerPixel \in 1..MergeMaxSamples
    /\ prepassSamples \in 1..samplesPerPixel
    /\ pixelBounds = Pixels
    /\ estimateVariances = FALSE
    /\ hasLights = TRUE
    /\ pc = "blend"
    /\ iter = 1
    /\ pPixel = NumPixels - 1
    /\ curSample = 1
    /\ sampleIndex = 0
    /\ cameraVertices = AllocVertices(maxDepth + 2)
    /\ lightVertices = AllocVertices(maxDepth + 1)
    /\ nCamera = 0
    /\ nLight = 0
    /\ walk = NoWalk
    /\ t = 0
    /\ s = 0
    /\ L = FZero
    /\ conn = NoConn
    /\ calls = <<>>
    /\ splatLog = <<>>
    /\ filmTile = EmptyFilm.n
    /\ film = EmptyFilm
    /\ \E prepass \in CapturedBuffers(SampleCount(0)),
          rectified \in CapturedBuffers(SampleCount(1)) :
          frameBuffers = <<prepass, rectified>>
    /\ out = NoImage
    /\ workers = NoWorkers
    /\ varianceEstimators = AllocEstimators
    /\ rectifier = [allocated |-> enableRectification, estimates |-> FALSE,
                    prepared |-> IF enableRectification THEN 1 ELSE 0]
MergeNext == Blend
SpecMerge == MergeInit /\ [][MergeNext]_vars

----------------------------------------------------------------------------
(* The strategies of a pixel sample *)

\* the pairs (s, t) the loop has to execute for the two subpaths
ValidStrategies ==
    {p \in (0..nLight) \X (1..nCamera) :
        /\ p[1] + p[2] - 2 >= 0
        /\ p[1] + p[2] - 2 <= maxDepth
        /\ p # <<1, 1>>}

CallSet == {calls[i] : i \in 1..Len(calls)}

\* C1: in every pixel sample ConnectBDPT is called exactly once for each pair
\* (s, t) with 1 <= t <= nCamera, 0 <= s <= nLight, 0 <= s + t - 2 <= maxDepth
\* other than (1, 1), and for no other pair
C1_StrategyEnumeration ==
    /\ CallSet \subseteq ValidStrategies
    /\ \A i, j \in 1..Len(calls) : calls[i] = calls[j] => i = j
    /\ \A i \in 1..Len(calls) :
          /\ calls[i][1] >= 0
          /\ calls[i][2] >= 1
          /\ calls[i][1] + calls[i][2] - 2 <= maxDepth
    /\ pc = "addSample" => CallSet = ValidStrategies

\* a sample with full subpaths is complete: (2,1), (0,2), (1,2) and (0,3)
\* were executed in this order, (1,1), (2,2), (1,3) and (2,3) were not
C1_Witness ==
    /\ pc = "addSample"
    /\ maxDepth = 1
    /\ nCamera = 3
    /\ nLight = 2
    /\ calls = << <<2, 1>>, <<0, 2>>, <<1, 2>>, <<0, 3>> >>

\* C2: RandomWalk writes and returns at most maxDepth vertices, so that
\* 1 <= nCamera <= maxDepth + 2 and 0 <= nLight <= maxDepth + 1, and no
\* vertex is written outside the two arrays or beyond the subpaths' ends
C2_SubpathBounds ==
    /\ walk.bounces >= 0
    /\ walk.bounces <= walk.maxDepth
    /\ walk.which = "camera" => walk.maxDepth = (maxDepth + 2) - 1
    /\ walk.which = "light" => walk.maxDepth = (maxDepth + 1) - 1
    /\ nCamera >= 0 /\ nCamera <= maxDepth + 2
    /\ nLight >= 0 /\ nLight <= maxDepth + 1
    /\ pc \in {"light", "strategy", "addSample"} => nCamera >= 1
    /\ DOMAIN cameraVertices = 0..(maxDepth + 1)
    /\ DOMAIN lightVertices = 0..maxDepth
    /\ pc \in {"strategy", "addSample"} =>
          /\ \A i \in nCamera..(maxDepth + 1) : cameraVertices[i] = DefaultVertex
          /\ \A i \in nLight..maxDepth : lightVertices[i] = DefaultVertex

\* both walks went as far as they are allowed to
C2_Witness ==
    /\ pc = "strategy"
    /\ maxDepth = 1
    /\ nCamera = maxDepth + 2
    /\ nLight = maxDepth + 1
    /\ cameraVertices[nCamera - 1].type = "Surface"
    /\ lightVertices[nLight - 1].type = "Medium"

\* C6: a contribution with t = 1 is passed to AddSplat at the raster position
\* that Sample_Wi wrote and leaves L as it is; a contribution with t # 1 is
\* added to L and is not splatted; nothing else changes L or the splats of
\* the sample
C6_SplatOrAccumulate ==
    [][IF calls' # calls /\ calls' # <<>>
       THEN IF conn'.t # 1
            THEN /\ L' = FAdd(L, conn'.Lpath)
                 /\ splatLog' = splatLog
            ELSE /\ L' = L
                 /\ splatLog' = Append(splatLog, [pos |-> conn'.pFilmNew,
                                                  L |-> conn'.Lpath])
                 /\ ~FIsZero(conn'.Lpath) => conn'.sampledWi
       ELSE calls' = calls => (L' = L /\ splatLog' = splatLog)]_vars

\* a sample with a splat for t = 1 and a contribution to L for t # 1
C6_Witness ==
    /\ pc = "addSample"
    /\ Len(splatLog) = 1
    /\ ~FIsZero(splatLog[1].L)
    /\ splatLog[1].pos # pPixel
    /\ ~FIsZero(L)

\* the vertices of a subpath of n vertices that are marked delta
DeltaVertices(path, n) == {i \in 0..(n - 1) : path[i].delta}

\* C13, as stated: once the walks have returned, a vertex that is marked
\* delta has pdfFwd = 0 and pdfRev = 0
C13_DeltaDensitiesZero ==
    pc = "strategy" =>
        /\ \A i \in DeltaVertices(cameraVertices, nCamera) :
              cameraVertices[i].pdfFwd = 0 /\ cameraVertices[i].pdfRev = 0
        /\ \A i \in DeltaVertices(lightVertices, nLight) :
              lightVertices[i].pdfFwd = 0 /\ lightVertices[i].pdfRev = 0

\* the two 0 densities of a specular event are those of the neighbours of
\* vertex i of the subpath
DeltaNeighboursZero(path, n, i) ==
    /\ i >= 1
    /\ path[i].type = "Surface"
    /\ path[i - 1].pdfRev = 0
    /\ i + 1 < n => path[i + 1].pdfFwd = 0

\* C13, amended: once the walks have returned, a vertex that is marked delta
\* is a surface vertex whose predecessor has pdfRev = 0 and whose successor,
\* if the walk created one, has pdfFwd = 0; its own densities are not
\* forced to 0
C13_DeltaNeighbourDensitiesZero ==
    pc = "strategy" =>
        /\ \A i \in DeltaVertices(cameraVertices, nCamera) :
              DeltaNeighboursZero(cameraVertices, nCamera, i)
        /\ \A i \in DeltaVertices(lightVertices, nLight) :
              DeltaNeighboursZero(lightVertices, nLight, i)

\* the camera walk sampled a specular lobe at its first vertex, which was
\* created with a density that is not 0, and went on to a second vertex
C13_Witness ==
    /\ pc = "strategy"
    /\ nCamera = 3
    /\ cameraVertices[1].delta
    /\ cameraVertices[1].pdfFwd # 0
    /\ cameraVertices[0].pdfRev = 0
    /\ cameraVertices[2].type = "Surface"
    /\ cameraVertices[2].pdfFwd = 0

\* C14: RandomWalk terminates. While the loop runs bounces is below
\* maxDepth; an iteration either leaves the loop, or creates one vertex and
\* increments bounces, or passes a boundary without BSDF and changes
\* nothing; and if no run of such boundaries is endless the walk returns
C14_WalkTerminates ==
    /\ [](pc = "walk" => (walk.bounces >= 0 /\ walk.bounces < walk.maxDepth))
    /\ [][(pc = "walk" /\ pc' = "walk") =>
             /\ walk'.bounces = walk.bounces + 1
             /\ walk'.maxDepth = walk.maxDepth
             /\ WalkArray'[walk'.bounces] # DefaultVertex]_vars
    /\ (pc = "walk") ~> (pc # "walk")

\* the camera walk returned after it had created a medium vertex and a
\* surface vertex, the two it may create for maxDepth = 1
C14_Witness ==
    /\ pc = "light"
    /\ maxDepth = 1
    /\ nCamera = 3
    /\ cameraVertices[1].type = "Medium"
    /\ cameraVertices[2].type = "Surface"

\* C17: for every strategy that Render executes, ConnectBDPT and MISWeight
\* read cameraVertices[i] only for 0 <= i < nCamera and lightVertices[j]
\* only for 0 <= j < nLight, and dereference no null pointer; a strategy
\* with s = 0 has t >= 2, so that the vertex t - 2 exists
C17_AccessesInRange ==
    conn.executed =>
        /\ conn.derefs # {}
        /\ conn.s = 0 => conn.t >= 2
        /\ \A p \in conn.derefs :
              /\ ~IsNull(p)
              /\ p.idx >= 0
              /\ p.arr = "camera" => p.idx < nCamera
              /\ p.arr = "light" => p.idx < nLight

\* MISWeight has run for the strategy (0, 3), which asks for the density of
\* the light's origin at pt with *ptMinus
C17_Witness ==
    /\ conn.executed
    /\ conn.misCalled
    /\ conn.s = 0
    /\ conn.t = 3
    /\ nCamera = 3
    /\ conn.derefs = {Ptr("camera", 0, TRUE), Ptr("camera", 1, TRUE),
                       Ptr("camera", 2, TRUE)}

\* the walk of this step ends right after it has created a vertex: it
\* returns one more vertex than it had at the start of the iteration
WalkStopsAfterCreating ==
    /\ pc = "walk"
    /\ pc' # "walk"
    /\ IF walk.which = "camera"
       THEN nCamera' = walk.bounces + 2
       ELSE nLight' = walk.bounces + 2

\* the last two vertices of arr, which has n vertices, have no pdfRev from
\* the walk
LastTwoUnset(arr, n) ==
    \A i \in {n - 2, n - 1} : i >= 0 => ~arr[i].revSet

\* the walk has assigned the pdfRev of the vertices of arr up to n - 3
WalkAssigned(arr, n) ==
    \A i \in 0..(n - 3) : arr[i].revSet

C12_ZeroContribution ==
    [][(calls' # calls /\ calls' # <<>> /\ conn'.unweighted = 0) =>
          /\ FIsZero(conn'.Lpath)
          /\ conn'.misWeight = FZero
          /\ ~conn'.misCalled
          /\ ~conn'.gets
          /\ conn'.estimated => conn'.estimate = FZero
          /\ calls' = Append(calls, <<s, t>>)
          /\ pc' \in {"strategy", "addSample"}
          /\ \/ t' = t /\ s' = s + 1
             \/ t' = t + 1 /\ s' = 0]_vars

\* the invalid configuration (1, 2) for a camera ray that escaped was
\* executed in the prepass, its estimate was logged and the loop goes on
C12_Witness ==
    /\ pc = "strategy"
    /\ conn.executed
    /\ conn.invalid
    /\ conn.s = 1
    /\ conn.t = 2
    /\ cameraVertices[1].type = "Light"
    /\ conn.estimated
    /\ conn.estimate = FZero
    /\ s = 2

----------------------------------------------------------------------------
(* The two passes *)

\* C7: with a rectification scheme, Prepare is called exactly once, after
\* the last AddEstimate of the prepass and before the main pass, and
\* AddEstimate is not called in the main pass
C7_PrepareBetweenPasses ==
    enableRectification =>
        /\ conn.estimated => (iter = 0 /\ rectifier.prepared = 0)
        /\ iter = 0 => rectifier.prepared = 0
        /\ iter = 1 => rectifier.prepared = 1
        /\ (iter = 0 /\ conn.executed) => conn.estimated
        /\ pc = "done" => iter = 1

\* a run with estimates in the prepass and connections in the main pass ends
C7_Witness ==
    /\ enableRectification
    /\ pc = "done"
    /\ rectifier.estimates
    /\ rectifier.prepared = 1
    /\ film = EmptyFilm
    /\ Len(frameBuffers) = 2
    /\ frameBuffers[2].n[0] >= 1

\* C8, as stated: the rectifier is asked for a factor only in the main pass
\* and only after Prepare, whatever mismod and userefvars are
C8_GetOnlyAfterPrepare ==
    conn.gets => (iter = 1 /\ rectifier.prepared = 1)

\* C8, amended: without reference variances the rectifier is asked for a
\* factor only in the main pass and after Prepare; with reference variances
\* it is asked in both passes, after Prepare in the main pass if a
\* rectification scheme is enabled and without any Prepare otherwise
C8_GetOnlyAfterPrepareUnlessReference ==
    conn.gets =>
        /\ rectifier.allocated
        /\ IF useReferenceVariances
           THEN /\ iter = 0 => rectifier.prepared = 0
                /\ iter = 1 => rectifier.prepared =
                                   (IF enableRectification THEN 1 ELSE 0)
           ELSE iter = 1 /\ rectifier.prepared = 1

\* a weight of the main pass asks the rectifier, which was prepared
C8_Witness ==
    /\ conn.gets
    /\ ~useReferenceVariances
    /\ iter = 1
    /\ conn.s + conn.t >= 3

\* C9: in the prepass every weight is the weight of the balance heuristic,
\* whatever misstrategy is
C9_PrepassBalance ==
    (iter = 0 /\ conn.executed) => conn.misWeight = conn.balanceWeight

\* C10: for every pixel of pixelBounds each pass takes as many samples as its
\* sample count says, the prepass prepassSamples and the main pass
\* samplesPerPixel - prepassSamples, and the count the buffer is scaled by is
\* that number
C10_SamplesPerPass ==
    hasLights =>
        \A i \in 1..Len(frameBuffers) : \A p \in pixelBounds :
            /\ frameBuffers[i].sampleCount = SampleCount(i - 1)
            /\ frameBuffers[i].n[p] = frameBuffers[i].sampleCount

\* C11: in the merged image a pixel that the rectifier masks has the value
\* of the main pass alone, and any other pixel has
\* prepass * (prepassSamples / samplesPerPixel)
\*   + main * ((samplesPerPixel - prepassSamples) / samplesPerPixel),
\* two weights that sum to 1: the mean of the two passes weighted by their
\* sample counts
C11_Merge ==
    out.merged =>
        /\ FAdd(Frac(prepassSamples, samplesPerPixel),
                Frac(samplesPerPixel - prepassSamples, samplesPerPixel)) = FOne
        /\ \A p \in Pixels :
              out.px[p] =
                  IF out.masked[p]
                  THEN FInt(frameBuffers[2].n[p])
                  ELSE Frac(frameBuffers[1].n[p] * prepassSamples
                              + frameBuffers[2].n[p]
                                  * (samplesPerPixel - prepassSamples),
                            samplesPerPixel)

\* an image with a masked pixel and a pixel that is not, whose two passes
\* differ, for one sample of the prepass and two of the main pass
C11_Witness ==
    /\ out.merged
    /\ prepassSamples = 1
    /\ samplesPerPixel = 3
    /\ out.masked[0]
    /\ ~out.masked[1]
    /\ frameBuffers[1].n = [p \in Pixels |-> 2]
    /\ frameBuffers[2].n = [p \in Pixels |-> 1]
    /\ out.px[0] = FInt(1)
    /\ out.px[1] = Frac(4, 3)

----------------------------------------------------------------------------
(* The estimators of the reference variances *)

\* C16, as stated: distinct strategies share an estimator, and the index of
\* (0, 2) is that of (1, 1), which is 1
C16_ZeroTwoSharesWithOneOne ==
    (conn.executed /\ conn.s = 0 /\ conn.t = 2) =>
        /\ conn.bufferIndex = 1
        /\ conn.bufferIndex = BufferIndex(1, 1)

\* C16, amended: distinct strategies share an estimator, those with the
\* same s + 2t. The index of (0, 2) is 2, which is that of (2, 1) and not
\* that of (1, 1), which is 1: a sample with two vertices on each subpath
\* adds the estimates of (2, 1) and of (0, 2) to the estimator 2
C16_SharedEstimator ==
    /\ (conn.executed /\ conn.s = 0 /\ conn.t = 2) =>
          /\ conn.bufferIndex = 2
          /\ conn.bufferIndex # BufferIndex(1, 1)
    /\ (conn.executed /\ conn.s = 2 /\ conn.t = 1) => conn.bufferIndex = 2
    /\ \A i \in DOMAIN varianceEstimators :
          \A x \in varianceEstimators[i] : x[1] + 2 * x[2] - 2 = i
    /\ (pc = "addSample" /\ <<2, 1>> \in CallSet /\ <<0, 2>> \in CallSet) =>
          {<<2, 1>>, <<0, 2>>} \subseteq varianceEstimators[2]

\* the estimator 2 holds the estimates of the strategies (2, 1) and (0, 2)
C16_Witness ==
    /\ pc = "addSample"
    /\ maxDepth = 1
    /\ varianceEstimators[2] = {<<2, 1>>, <<0, 2>>}
    /\ varianceEstimators[1] = {}

\* C18: with estimatevariances, for every maxDepth >= 0 and every strategy
\* that Render executes, 0 <= BufferIndex(s, t) < N for the N estimators
\* that are allocated
C18_IndexInRange ==
    (estimateVariances /\ conn.executed) =>
        (conn.bufferIndex >= 0 /\ conn.bufferIndex < NumEstimators)

----------------------------------------------------------------------------
(* The tiles of a pass *)

\* the number of times the body of the do-while loop runs for a pixel in
\* the pass i: once, and again while curSample++ < sampleCount and the
\* sampler has a next sample
SamplesTaken(i) ==
    LET left == samplesPerPixel - SampleOffset(i)
        m == IF SampleCount(i) < left THEN SampleCount(i) ELSE left
    IN  IF m < 1 THEN 1 ELSE m

\* what the samples of the pass i add to the pixel p, in any order
PassSamples(i, p) ==
    IF hasLights /\ p \in pixelBounds THEN SamplesTaken(i) ELSE 0
PassSplats(i, p) ==
    IF hasLights
    THEN Cardinality(
             {x \in pixelBounds
                       \X (SampleOffset(i)..(SampleOffset(i) + SamplesTaken(i) - 1)) :
                 SplatTarget(x[1], x[2]) = p})
    ELSE 0

\* C15: in each pass, however the tile workers interleave, the tile of each
\* worker is merged into the film exactly once, the buffer of the pass is
\* captured only when every tile is merged, and the film is empty when the
\* next pass starts; the buffer of a pass holds what the samples of that
\* pass added and nothing else, whatever the order of the tiles
C15_TilesMergedBeforeCapture ==
    /\ \A tile \in Tiles : workers[tile].merges <= 1
    /\ (pc = "capture" /\ hasLights) =>
          \A tile \in Tiles :
              /\ workers[tile].pass = iter
              /\ workers[tile].pc = "done"
              /\ workers[tile].merges = 1
    /\ pc \in {"iter", "prepare", "blend", "done"} =>
          /\ film = EmptyFilm
          /\ Len(frameBuffers) = (IF pc = "iter" THEN iter ELSE iter + 1)
    /\ \A i \in 1..Len(frameBuffers) : \A p \in Pixels :
          /\ frameBuffers[i].n[p] = PassSamples(i - 1, p)
          /\ frameBuffers[i].splat[p] = PassSplats(i - 1, p)

\* both passes were rendered by two workers, each of which took a sample of
\* its pixel in each pass, and the two buffers differ
C15_Witness ==
    /\ pc = "done"
    /\ hasLights
    /\ pixelBounds = Pixels
    /\ samplesPerPixel = 2
    /\ prepassSamples = 1
    /\ \A tile \in Tiles : workers[tile].pc = "done" /\ workers[tile].pass = 1
    /\ frameBuffers[1].n = [p \in Pixels |-> 1]
    /\ frameBuffers[2].n = [p \in Pixels |-> 1]
    /\ frameBuffers[1].splat # frameBuffers[2].splat

----------------------------------------------------------------------------
(* The weights *)

\* C3, as stated: for a path of k vertices without delta vertices and delta
\* light, with no rectifier and the balance heuristic, the weights of all
\* decompositions (s, t) with s + t = k, t >= 1, s >= 0 sum to 1
C3_PartitionOfUnity ==
    pc = "weighed" => L = FOne

\* C3, amended: the weights of all decompositions sum to 1 for a path of at
\* least 3 vertices; for a path of 2 vertices MISWeight returns 1 for each
\* of (0, 2) and (1, 1), so that the sum is 2
C3_PartitionOfUnityFromThree ==
    pc = "weighed" =>
        /\ calls = [i \in 1..nLight |-> <<i - 1, nLight - (i - 1)>>]
        /\ nLight >= 3 => L = FOne
        /\ nLight = 2 => L = FInt(2)

\* the four weights of a path of 4 vertices whose densities differ were
\* summed
C3_Witness ==
    /\ pc = "weighed"
    /\ nLight = 4
    /\ Len(calls) = 4
    /\ lightVertices[0].pdfFwd # lightVertices[0].pdfRev
    /\ lightVertices[1].pdfFwd # lightVertices[1].pdfRev
    /\ lightVertices[1].pdfFwd # lightVertices[2].pdfFwd
    /\ L = FOne

\* C4: for every strategy, every heuristic and with or without a rectifier
\* the misWeight that ConnectBDPT reports is in [0, 1]; it is 1 when
\* s + t = 2 and the contribution is not black, and 0 when it is black
C4_WeightRange ==
    conn.executed =>
        /\ conn.misWeight[2] > 0
        /\ FLeq(FZero, conn.misWeight)
        /\ FLeq(conn.misWeight, FOne)
        /\ (conn.unweighted # 0 /\ conn.s + conn.t = 2) => conn.misWeight = FOne
        /\ conn.unweighted = 0 => conn.misWeight = FZero

\* a weight of the power heuristic strictly between 0 and 1 for a connection
\* of two subpaths of two vertices, with factors of the rectifier
C4_Witness ==
    /\ conn.executed
    /\ conn.s = 2
    /\ conn.t = 2
    /\ conn.gets
    /\ misStrategy = "power"
    /\ conn.unweighted # 0
    /\ conn.misWeight # FOne
    /\ conn.misWeight # conn.balanceWeight

\* C5: MISWeight leaves both subpaths as they were: the vertex overwritten
\* by the sampled one, the delta flags of the connection vertices and the
\* pdfRev of these and of their predecessors have their values again
C5_SubpathsRestored ==
    [][conn'.misCalled =>
          (cameraVertices' = cameraVertices /\ lightVertices' = lightVertices)]_vars

\* MISWeight has run for s = 1 and t = 2, where it overwrites the light
\* vertex by the sampled one, clears the delta flag of pt and sets pdfRev
\* of three vertices
C5_Witness ==
    /\ pc = "connected"
    /\ conn.misCalled
    /\ conn.s = 1
    /\ conn.t = 2
    /\ cameraVertices[1].delta
    /\ lightVertices[0].light = "deltaPosition"
====
